---- MODULE Spec2Model ----
(***************************************************************************)
(* Maze game core: the two maze providers (FixedMazeProvider and           *)
(* RandomMazeProvider, src/src/game/providers/FixedMazeProvider.ts), the   *)
(* Maze entity's grid/pixel conversion (src/src/game/entities/Maze.ts)     *)
(* and the grid movement state machine                                     *)
(* (src/src/game/entities/MovementController.ts).                          *)
(*                                                                         *)
(* Construction of a RandomMazeProvider is modelled step by step: pc is    *)
(* the position inside the constructor, stack is the call stack of the     *)
(* recursive carvePassagesFrom, current is the loop variable of carvePath. *)
(* Math.random() is a draw r from 0..RandDenom-1 standing for the real     *)
(* number r / RandDenom of [0, 1).                                         *)
(***************************************************************************)
EXTENDS Integers, Sequences, FiniteSets, TLC

VARIABLES
    providerKind,    \* "fixed" | "random": which IMazeProvider was constructed
    width,           \* mazeData.width
    height,          \* mazeData.height
    grid,            \* mazeData.grid, grid[y][x], 1 = wall, 0 = path
    startPosition,   \* mazeData.startPosition
    exitPosition,    \* mazeData.exitPosition
    pc,              \* position inside the RandomMazeProvider constructor
    stack,           \* frames of carvePassagesFrom: [cx, cy, dirs (still to visit)]
    current,         \* carvePath's loop variable
    created,         \* TRUE once the MovementController has been constructed
    gridX,           \* MovementController.gridX
    gridY,           \* MovementController.gridY
    isMovingFlag,    \* MovementController.isMovingFlag
    moveTween,       \* MovementController.moveTween: the tween it refers to, or NoTween
    cellSize,        \* Maze.cellSize
    container,       \* pixel position of the character's container, in half pixels
    lastCall,        \* the latest call of the public interface: what it returned and
                     \* which callbacks it invoked, in order
    committed,       \* history: number of moves committed so far
    completions,     \* history: commit numbers of the moves whose completion fired
    steps,           \* history: steps the constructor of RandomMazeProvider has taken
    autoMoves,       \* history: moves committed by the auto-move run in progress
    gameWon,         \* MainGameScene.gameWon
    visitedCells,    \* MainGameScene.visitedCells
    autoMoveDirection, \* MainGameScene.autoMoveDirection, "null" when inactive
    lastKeyPressed,  \* MainGameScene.lastKeyPressed, "null" when unset
    justDown,        \* cursor keys pressed and not yet consumed by JustDown
    onComplete,      \* the completion callback the scheduled tween carries
    tweenDuration,   \* duration of the tween the controller scheduled last
    sceneEvent,      \* the latest scene handler: what it called
    bounceTween,     \* the renderer's bounceTween: the bounce it refers to, or NoTween
    walkTween,       \* the renderer's walkTween: the walk animation it refers to
    containerDestroyed, \* TRUE once the renderer's container has been destroyed
    characterType,   \* MainGameScene.characterType: "blob" | "unicorn"
    held             \* the object a consumer got from a position getter

mazeVars == <<providerKind, width, height, grid, startPosition, exitPosition>>
genVars  == <<pc, stack, current>>
ctlVars  == <<created, gridX, gridY, isMovingFlag, moveTween, container>>
vars     == <<providerKind, width, height, grid, startPosition, exitPosition,
              pc, stack, current,
              created, gridX, gridY, isMovingFlag, moveTween, cellSize, container,
              lastCall,
              committed, completions, steps, autoMoves,
              gameWon, visitedCells, autoMoveDirection, lastKeyPressed, justDown,
              onComplete, tweenDuration, sceneEvent, bounceTween,
              walkTween, containerDestroyed, characterType,
              held>>
histVars  == <<committed, completions, steps, autoMoves>>
policyVars == <<gameWon, visitedCells, autoMoveDirection, lastKeyPressed, justDown>>
rendererVars == <<bounceTween, walkTween, containerDestroyed, characterType>>
sceneVars == <<gameWon, visitedCells, autoMoveDirection, lastKeyPressed, justDown,
               onComplete, tweenDuration, sceneEvent, bounceTween,
               walkTween, containerDestroyed, characterType>>

----------------------------------------------------------------------------
(* Bounds of the model *)

\* largest width and height given to RandomMazeProvider
MaxSize == 3

\* Math.random() returns r / RandDenom for r in 0 .. RandDenom - 1
RandDenom == 12

\* Maze's default cell size, and the smallest one getBestCellSize returns
DefaultCellSize == 40
MinCellSize == 20

\* getBestCellSize: the side padding it takes off the viewport's width, and the
\* scene's baseTopUiSpace and baseBottomUiSpace it takes off the height
SidePadding == 40
BaseTopUiSpace == 100
BaseBottomUiSpace == 60

\* how far outside the grid isWall is asked
QueryMargin == 1

\* how many moves are committed while their history is recorded
MaxMoves == 3

\* largest maze size the scene asks for, and how many cursor-key presses can wait
\* to be read
MaxSceneSize == 3
MaxPendingKeys == 1

\* largest maze size of the scene that is followed over restarts
MaxRestartSize == 2

\* largest maze size a Character on its own is placed in
MaxCharacterSize == 2

\* largest width and height of the mazes whose carving is followed on its own
MaxCarveSize == 4

\* the duration of the tween MovementController.move schedules, the default of
\* Character.move's duration parameter, the duration update() asks for in auto-move
TweenDuration == 150
DefaultMoveDuration == 150
AutoMoveDuration == 75

Sizes == 2 .. MaxSize
Rand  == 0 .. (RandDenom - 1)

----------------------------------------------------------------------------
(* Values *)

Pos(x, y) == [x |-> x, y |-> y]

\* a position that is not set yet
NoPos == Pos(-1, -1)

\* what a scene handler did: the Character.move it issued (<<direction, callback,
\* duration>> or << >>), the cells it passed to markCellVisited, whether it
\* compared the position with the exit, and the error it threw ("none" when it
\* returned)
Event(handler, move, marked, victoryChecked) ==
    [handler |-> handler, move |-> move, marked |-> marked,
     victoryChecked |-> victoryChecked, threw |-> "none"]

\* the handler ended by throwing a TypeError: the statements after the throwing
\* call did not run
Thrown(event) == [event EXCEPT !.threw = "TypeError"]
NoEvent == Event("none", << >>, << >>, FALSE)

\* the object a consumer holds: ref names the object ("copy" for an object of its
\* own, "startPosition" / "exitPosition" for the provider's, "mazeData" for the
\* provider's mazeData object), x and y its fields when it is a position
Held(ref, x, y) == [ref |-> ref, x |-> x, y |-> y]
NoHeld == Held("none", -1, -1)

\* a call of the public interface: its arguments, its return value (FALSE for a
\* void operation) and the callbacks it invoked, in order
Call(op, args, ret, cbs) == [op |-> op, args |-> args, ret |-> ret, cbs |-> cbs]

\* an invocation of one of the callbacks given to move()
Cb(name, args) == [name |-> name, args |-> args]

NoCall == Call("none", <<>>, FALSE, <<>>)

\* the tween moveTween refers to and the pixel position it animates towards;
\* state "running": its onComplete is still to fire
Tween(state, target) == [state |-> state, x |-> target.x, y |-> target.y]

\* moveTween = undefined
NoTween == [state |-> "undefined", x |-> 0, y |-> 0]

\* the tween walkTween refers to and the y the container has when it ends: a yoyo
\* tween ends on the value it started from; 0 for a tween that does not animate y
Walk(state, y) == [state |-> state, y |-> y]

\* walkTween = undefined
NoWalk == Walk("undefined", 0)

\* tween.stop(): a running tween is stopped where it is and never calls onComplete;
\* the field that refers to it is left as it is
Stopped(tween) == IF tween.state = "running" THEN [tween EXCEPT !.state = "stopped"]
                  ELSE tween

\* the renderers MainGameScene.create chooses between
CharacterTypes == {"blob", "unicorn"}

\* Math.floor(Math.random() * (n / 2)) for Math.random() = r / RandDenom
RandomBelowHalf(r, n) == (r * n) \div (2 * RandDenom)

\* Math.floor(rand() * (i + 1)) for rand() = r / RandDenom
RandomIndex(r, i) == (r * (i + 1)) \div RandDenom

----------------------------------------------------------------------------
(* FixedMazeProvider: the hardcoded 16x16 maze, rows top to bottom *)

FixedRows ==
    << <<1, 1, 1, 1, 1, 1, 1, 1, 1, 1, 1, 1, 1, 1, 1, 1>>,
       <<1, 0, 0, 0, 1, 0, 0, 0, 0, 0, 0, 0, 1, 0, 0, 1>>,
       <<1, 0, 1, 0, 1, 0, 1, 1, 1, 1, 1, 0, 1, 0, 1, 1>>,
       <<1, 0, 1, 0, 0, 0, 0, 0, 0, 0, 1, 0, 0, 0, 0, 1>>,
       <<1, 0, 1, 1, 1, 1, 1, 1, 1, 0, 1, 1, 1, 1, 0, 1>>,
       <<1, 0, 0, 0, 0, 0, 0, 0, 1, 0, 0, 0, 0, 0, 0, 1>>,
       <<1, 1, 1, 1, 1, 1, 1, 0, 1, 1, 1, 1, 1, 1, 0, 1>>,
       <<1, 0, 0, 0, 0, 0, 0, 0, 0, 0, 0, 0, 0, 1, 0, 1>>,
       <<1, 0, 1, 1, 1, 1, 1, 1, 1, 0, 1, 1, 0, 1, 0, 1>>,
       <<1, 0, 0, 0, 0, 0, 0, 0, 1, 0, 1, 0, 0, 0, 0, 1>>,
       <<1, 1, 1, 1, 1, 1, 1, 0, 1, 0, 1, 0, 1, 1, 1, 1>>,
       <<1, 0, 0, 0, 0, 0, 0, 0, 1, 0, 0, 0, 0, 0, 0, 1>>,
       <<1, 0, 1, 1, 1, 1, 1, 1, 1, 1, 1, 1, 1, 1, 0, 1>>,
       <<1, 0, 0, 0, 0, 0, 0, 0, 0, 0, 0, 0, 0, 0, 0, 1>>,
       <<1, 1, 1, 1, 1, 1, 1, 1, 1, 1, 1, 1, 1, 1, 0, 1>>,
       <<1, 1, 1, 1, 1, 1, 1, 1, 1, 1, 1, 1, 1, 1, 0, 1>> >>

FixedWidth  == 16
FixedHeight == 16
FixedStart  == Pos(8, 8)
FixedExit   == Pos(14, 15)

\* the array literal as grid[y][x] with 0-based indices
FixedGrid == [y \in 0 .. (FixedHeight - 1) |->
                [x \in 0 .. (FixedWidth - 1) |-> FixedRows[y + 1][x + 1]]]

----------------------------------------------------------------------------
(* The maze query interface, the same code in both providers *)

getWidth  == width
getHeight == height
getStartPosition == Pos(startPosition.x, startPosition.y)
getExitPosition  == Pos(exitPosition.x, exitPosition.y)

\* isWall with an open boundary: cells outside the grid are reported as free
isWall_OpenBoundary(x, y) ==
    IF x < 0 \/ x >= width \/ y < 0 \/ y >= height
    THEN FALSE
    ELSE grid[y][x] = 1

isWall(x, y) ==
    IF x < 0 \/ x >= width \/ y < 0 \/ y >= height
    THEN TRUE
    ELSE grid[y][x] = 1

\* grid[y][x] = v
SetCell(g, x, y, v) == [g EXCEPT ![y][x] = v]

----------------------------------------------------------------------------
(* RandomMazeProvider: constructor, generateMazeGrid, carvePassagesFrom *)

\* carving directions of stride 1: no wall is left between corridors
CarveDirections_Stride1 == << Pos(0, -1), Pos(1, 0), Pos(0, 1), Pos(-1, 0) >>

\* the directions array of carvePassagesFrom, in source order
CarveDirections == << Pos(0, -2), Pos(2, 0), Pos(0, 2), Pos(-2, 0) >>

\* [a[i], a[j]] = [a[j], a[i]] on 0-based indices
Swap(a, i, j) == [a EXCEPT ![i + 1] = a[j + 1], ![j + 1] = a[i + 1]]

\* the Fisher-Yates loop for i = 3, 2, 1 with the draws r3, r2, r1
Shuffle(a, r3, r2, r1) ==
    LET a3 == Swap(a,  3, RandomIndex(r3, 3))
        a2 == Swap(a3, 2, RandomIndex(r2, 2))
    IN  Swap(a2, 1, RandomIndex(r1, 1))

\* every order the shuffle of carvePassagesFrom can leave the directions in
ShuffledDirections ==
    { Shuffle(CarveDirections, r3, r2, r1) : r3 \in Rand, r2 \in Rand, r1 \in Rand }

Frame(cx, cy, dirs) == [cx |-> cx, cy |-> cy, dirs |-> dirs]

\* PickStart drawing the start from the whole grid instead of its upper-left part
PickStart_WholeGrid ==
    /\ pc = "pickStart"
    /\ \E rx \in Rand, ry \in Rand :
          startPosition' = Pos(RandomBelowHalf(rx, 2 * width),
                               RandomBelowHalf(ry, 2 * height))
    /\ pc' = "pickExit"
    /\ UNCHANGED <<providerKind, width, height, grid, exitPosition, stack, current,
                   ctlVars, cellSize, lastCall>>

\* const startPosition = { x: floor(random * (width / 2)), y: ... }
PickStart ==
    /\ pc = "pickStart"
    /\ \E rx \in Rand, ry \in Rand :
          startPosition' = Pos(RandomBelowHalf(rx, width), RandomBelowHalf(ry, height))
    /\ pc' = "pickExit"
    /\ UNCHANGED <<providerKind, width, height, grid, exitPosition, stack, current,
                   ctlVars, cellSize, lastCall>>

\* PickExit adding the half rounded up instead of down
PickExit_HalfRoundedUp ==
    /\ pc = "pickExit"
    /\ \E rx \in Rand, ry \in Rand :
          exitPosition' =
              Pos(RandomBelowHalf(rx, width) + ((width + 1) \div 2),
                  RandomBelowHalf(ry, height) + ((height + 1) \div 2))
    /\ pc' = "generate"
    /\ UNCHANGED <<providerKind, width, height, grid, startPosition, stack, current,
                   ctlVars, cellSize, lastCall>>

\* const exitPosition = { x: floor(random * (width / 2)) + (width % 2 === 0 ? width / 2
\*                                                          : floor(width / 2)), y: ... }
PickExit ==
    /\ pc = "pickExit"
    /\ \E rx \in Rand, ry \in Rand :
          exitPosition' =
              Pos(RandomBelowHalf(rx, width)
                    + (IF width % 2 = 0 THEN width \div 2 ELSE width \div 2),
                  RandomBelowHalf(ry, height)
                    + (IF height % 2 = 0 THEN height \div 2 ELSE height \div 2))
    /\ pc' = "generate"
    /\ UNCHANGED <<providerKind, width, height, grid, startPosition, stack, current,
                   ctlVars, cellSize, lastCall>>

\* GenerateMazeGrid that forgets to open the start cell
GenerateMazeGrid_StartClosed ==
    /\ pc = "generate"
    /\ \E dirs \in ShuffledDirections :
          stack' = << Frame(startPosition.x, startPosition.y, dirs) >>
    /\ grid' = [y \in 0 .. (height - 1) |-> [x \in 0 .. (width - 1) |-> 1]]
    /\ pc' = "carve"
    /\ UNCHANGED <<providerKind, width, height, startPosition, exitPosition, current,
                   ctlVars, cellSize, lastCall>>

\* generateMazeGrid up to the first call of carvePassagesFrom: the grid is all
\* walls, the start cell is opened, and the first frame shuffles its directions
GenerateMazeGrid ==
    /\ pc = "generate"
    /\ \E dirs \in ShuffledDirections :
          stack' = << Frame(startPosition.x, startPosition.y, dirs) >>
    /\ grid' = SetCell([y \in 0 .. (height - 1) |-> [x \in 0 .. (width - 1) |-> 1]],
                       startPosition.x, startPosition.y, 0)
    /\ pc' = "carve"
    /\ UNCHANGED <<providerKind, width, height, startPosition, exitPosition, current,
                   ctlVars, cellSize, lastCall>>

\* carvePassagesFrom accepting neighbours in column 0 and row 0
CarveStep_FromZero ==
    /\ pc = "carve"
    /\ LET top  == stack[Len(stack)]
           rest == SubSeq(stack, 1, Len(stack) - 1)
       IN  IF top.dirs = <<>>
           THEN /\ stack' = rest
                /\ grid' = grid
                /\ pc' = IF rest = <<>> THEN "openExit" ELSE "carve"
           ELSE LET dir  == Head(top.dirs)
                    nx   == top.cx + dir.x
                    ny   == top.cy + dir.y
                    here == Frame(top.cx, top.cy, Tail(top.dirs))
                IN  IF nx >= 0 /\ nx < width /\ ny >= 0 /\ ny < height /\ grid[ny][nx] = 1
                    THEN /\ grid' = SetCell(SetCell(grid, top.cx + (dir.x \div 2),
                                                    top.cy + (dir.y \div 2), 0),
                                            nx, ny, 0)
                         /\ \E dirs \in ShuffledDirections :
                               stack' = Append(Append(rest, here), Frame(nx, ny, dirs))
                         /\ pc' = "carve"
                    ELSE /\ grid' = grid
                         /\ stack' = Append(rest, here)
                         /\ pc' = "carve"
    /\ UNCHANGED <<providerKind, width, height, startPosition, exitPosition, current,
                   ctlVars, cellSize, lastCall>>

\* one iteration of `for (const dir of directions)` in the innermost call of
\* carvePassagesFrom, or its return when the loop is over
CarveStep ==
    /\ pc = "carve"
    /\ LET top  == stack[Len(stack)]
           rest == SubSeq(stack, 1, Len(stack) - 1)
       IN  IF top.dirs = <<>>
           THEN /\ stack' = rest
                /\ grid' = grid
                /\ pc' = IF rest = <<>> THEN "openExit" ELSE "carve"
           ELSE LET dir  == Head(top.dirs)
                    nx   == top.cx + dir.x
                    ny   == top.cy + dir.y
                    here == Frame(top.cx, top.cy, Tail(top.dirs))
                IN  IF nx > 0 /\ nx < width /\ ny > 0 /\ ny < height /\ grid[ny][nx] = 1
                    THEN /\ grid' = SetCell(SetCell(grid, top.cx + (dir.x \div 2),
                                                    top.cy + (dir.y \div 2), 0),
                                            nx, ny, 0)
                         /\ \E dirs \in ShuffledDirections :
                               stack' = Append(Append(rest, here), Frame(nx, ny, dirs))
                         /\ pc' = "carve"
                    ELSE /\ grid' = grid
                         /\ stack' = Append(rest, here)
                         /\ pc' = "carve"
    /\ UNCHANGED <<providerKind, width, height, startPosition, exitPosition, current,
                   ctlVars, cellSize, lastCall>>

\* grid[exitPosition.y][exitPosition.x] = 0
OpenExit ==
    /\ pc = "openExit"
    /\ grid' = SetCell(grid, exitPosition.x, exitPosition.y, 0)
    /\ pc' = "ensure"
    /\ UNCHANGED <<providerKind, width, height, startPosition, exitPosition, stack, current,
                   ctlVars, cellSize, lastCall>>

----------------------------------------------------------------------------
(* RandomMazeProvider: ensurePathToExit and carvePath *)

\* the directions array of ensurePathToExit, in source order
BfsDirections == << Pos(0, -1), Pos(1, 0), Pos(0, 1), Pos(-1, 0) >>

\* the `for (const dir of directions)` loop of the BFS from its i-th direction on:
\* the queue and the visited cells after it
RECURSIVE BfsExpand(_, _, _, _, _, _, _)
BfsExpand(g, w, h, cur, i, queue, visited) ==
    IF i > Len(BfsDirections)
    THEN [queue |-> queue, visited |-> visited]
    ELSE LET nx == cur.x + BfsDirections[i].x
             ny == cur.y + BfsDirections[i].y
         IN  IF /\ nx >= 0 /\ nx < w /\ ny >= 0 /\ ny < h
                /\ Pos(nx, ny) \notin visited
                /\ g[ny][nx] = 0
             THEN BfsExpand(g, w, h, cur, i + 1,
                            Append(queue, Pos(nx, ny)), visited \cup {Pos(nx, ny)})
             ELSE BfsExpand(g, w, h, cur, i + 1, queue, visited)

\* the `while (queue.length > 0)` loop: the final value of exitReachable
RECURSIVE BfsLoop(_, _, _, _, _, _)
BfsLoop(g, w, h, exit, queue, visited) ==
    IF queue = <<>>
    THEN FALSE
    ELSE LET cur == Head(queue)
         IN  IF cur.x = exit.x /\ cur.y = exit.y
             THEN TRUE
             ELSE LET next == BfsExpand(g, w, h, cur, 1, Tail(queue), visited)
                  IN  BfsLoop(g, w, h, exit, next.queue, next.visited)

\* exitReachable as ensurePathToExit computes it
ExitReachable(g, w, h, start, exit) == BfsLoop(g, w, h, exit, <<start>>, {start})

\* EnsurePathToExit that never repairs
EnsurePathToExit_NoRepair ==
    /\ pc = "ensure"
    /\ pc' = "done"
    /\ current' = current
    /\ UNCHANGED <<providerKind, width, height, grid, startPosition, exitPosition, stack,
                   ctlVars, cellSize, lastCall>>

\* EnsurePathToExit that repairs whatever the BFS found
EnsurePathToExit_AlwaysRepairs ==
    /\ pc = "ensure"
    /\ pc' = "carvePath"
    /\ current' = Pos(startPosition.x, startPosition.y)
    /\ UNCHANGED <<providerKind, width, height, grid, startPosition, exitPosition, stack,
                   ctlVars, cellSize, lastCall>>

\* the BFS of ensurePathToExit and its decision to repair
EnsurePathToExit ==
    /\ pc = "ensure"
    /\ IF ExitReachable(grid, width, height, startPosition, exitPosition)
       THEN /\ pc' = "done"
            /\ current' = current
       ELSE /\ pc' = "carvePath"
            /\ current' = Pos(startPosition.x, startPosition.y)
    /\ UNCHANGED <<providerKind, width, height, grid, startPosition, exitPosition, stack,
                   ctlVars, cellSize, lastCall>>

\* carvePath's walk without its vertical steps
CarveMove_NoVertical(cur, exit) ==
    IF cur.x < exit.x THEN Pos(cur.x + 1, cur.y)
    ELSE IF cur.x > exit.x THEN Pos(cur.x - 1, cur.y)
    ELSE cur

\* carvePath's walk taking its vertical steps first
CarveMove_VerticalFirst(cur, exit) ==
    IF cur.y < exit.y THEN Pos(cur.x, cur.y + 1)
    ELSE IF cur.y > exit.y THEN Pos(cur.x, cur.y - 1)
    ELSE IF cur.x < exit.x THEN Pos(cur.x + 1, cur.y)
    ELSE IF cur.x > exit.x THEN Pos(cur.x - 1, cur.y)
    ELSE cur

\* one step of carvePath's walk: horizontal while x differs, then vertical
CarveMove(cur, exit) ==
    IF cur.x < exit.x THEN Pos(cur.x + 1, cur.y)
    ELSE IF cur.x > exit.x THEN Pos(cur.x - 1, cur.y)
    ELSE IF cur.y < exit.y THEN Pos(cur.x, cur.y + 1)
    ELSE IF cur.y > exit.y THEN Pos(cur.x, cur.y - 1)
    ELSE cur

\* one iteration of carvePath's while loop, or the statement after the loop
CarvePathStep ==
    /\ pc = "carvePath"
    /\ IF current.x # exitPosition.x \/ current.y # exitPosition.y
       THEN LET moved == CarveMove(current, exitPosition)
            IN  /\ grid' = SetCell(SetCell(grid, current.x, current.y, 0),
                                   moved.x, moved.y, 0)
                /\ current' = moved
                /\ pc' = "carvePath"
       ELSE /\ grid' = SetCell(grid, exitPosition.x, exitPosition.y, 0)
            /\ current' = current
            /\ pc' = "done"
    /\ UNCHANGED <<providerKind, width, height, startPosition, exitPosition, stack,
                   ctlVars, cellSize, lastCall>>

----------------------------------------------------------------------------
(* Initial states *)

\* new FixedMazeProvider(): the whole maze is a literal
InitFixed ==
    /\ providerKind = "fixed"
    /\ width = FixedWidth
    /\ height = FixedHeight
    /\ grid = FixedGrid
    /\ startPosition = FixedStart
    /\ exitPosition = FixedExit
    /\ pc = "done"

\* new RandomMazeProvider(width, height) with width and height drawn from sizes,
\* at the entry of the constructor
NewRandomMazeProvider(sizes) ==
    /\ providerKind = "random"
    /\ width \in sizes
    /\ height \in sizes
    /\ grid = << >>
    /\ startPosition = NoPos
    /\ exitPosition = NoPos
    /\ pc = "pickStart"

InitRandom == NewRandomMazeProvider(Sizes)

\* no Character exists yet; the scene's init(data) has set characterType to
\* data.characterType || 'blob'
NoCharacter ==
    /\ stack = << >>
    /\ current = NoPos
    /\ created = FALSE
    /\ gridX = -1
    /\ gridY = -1
    /\ isMovingFlag = FALSE
    /\ moveTween = NoTween
    /\ cellSize = DefaultCellSize
    /\ container = NoPos
    /\ lastCall = NoCall
    /\ committed = 0
    /\ completions = << >>
    /\ steps = 0
    /\ bounceTween = NoTween
    /\ autoMoves = 0
    /\ gameWon = FALSE
    /\ visitedCells = {}
    /\ autoMoveDirection = "null"
    /\ lastKeyPressed = "null"
    /\ justDown = {}
    /\ onComplete = "none"
    /\ tweenDuration = 0
    /\ sceneEvent = NoEvent
    /\ walkTween = NoWalk
    /\ containerDestroyed = FALSE
    /\ characterType \in CharacterTypes
    /\ held = NoHeld

\* the state before a Character exists
InitCharacter ==
    /\ InitFixed \/ InitRandom
    /\ NoCharacter

\* the provider and the controller on their own: the renderer is the default one
Init ==
    /\ InitCharacter
    /\ characterType = "blob"

----------------------------------------------------------------------------
(* Maze entity and MovementController *)

Direction == {"up", "down", "left", "right"}

Max(a, b) == IF a >= b THEN a ELSE b
Min(a, b) == IF a <= b THEN a ELSE b

\* a viewport size (Phaser.Structs.Size, the camera's width and height)
Size(w, h) == [width |-> w, height |-> h]

\* the viewports the window is given: one where the fitting cell is odd (31 for
\* the 10x10 maze, 103 for a 3x3 one), one so low that the minimum applies
Viewports == {Size(800, 470), Size(800, 210)}

\* MainGameScene.getBestCellSize: the largest cell with which the maze fits into
\* the viewport less the padding and the UI space, and MinCellSize at least
getBestCellSize(viewW, viewH) ==
    LET availableW == Max(1, viewW - SidePadding)
        availableH == Max(1, viewH - (BaseTopUiSpace + BaseBottomUiSpace))
        fitCell    == Min(availableW \div width, availableH \div height)
    IN  Max(MinCellSize, fitCell)

\* Maze's constructor: config?.cellSize || 40; config 0 stands for no cell size given
MazeCellSize(config) == IF config = 0 THEN DefaultCellSize ELSE config

\* the cell sizes a Maze is constructed with: the best cell size of the viewport
\* in the scene that builds random mazes; for the fixed maze the default, or a
\* cell size given in the config
CellSizes ==
    LET best == {getBestCellSize(view.width, view.height) : view \in Viewports}
    IN  {MazeCellSize(config) :
            config \in (IF providerKind = "fixed" THEN best \cup {0} ELSE best)}

\* Pixel coordinates are counted in half pixels: the value v stands for the pixel
\* coordinate v / 2, which keeps cellSize / 2 exact when the cell size is odd.

\* gridToPixel returning the top-left corner of the cell instead of its centre
gridToPixel_Corner(gx, gy, cs) == Pos(2 * (gx * cs), 2 * (gy * cs))

\* Maze.gridToPixel: the pixel centre of a cell,
\* (gridX * cellSize + cellSize / 2, gridY * cellSize + cellSize / 2), in half pixels
gridToPixel(gx, gy, cs) == Pos(2 * (gx * cs) + cs, 2 * (gy * cs) + cs)

\* the switch of move(): the candidate cell
NewGridPosition(x, y, direction) ==
    CASE direction = "up"    -> Pos(x, y - 1)
      [] direction = "down"  -> Pos(x, y + 1)
      [] direction = "left"  -> Pos(x - 1, y)
      [] direction = "right" -> Pos(x + 1, y)

getGridPosition == Pos(gridX, gridY)
isMoving == isMovingFlag

\* CreateCharacter that places the controller at the grid's origin
CreateCharacter_AtOrigin ==
    /\ pc = "done"
    /\ ~created
    /\ \E cs \in CellSizes :
          /\ cellSize' = cs
          /\ container' = gridToPixel(0, 0, cs)
    /\ created' = TRUE
    /\ gridX' = 0
    /\ gridY' = 0
    /\ isMovingFlag' = FALSE
    /\ moveTween' = NoTween
    /\ lastCall' = Call("create", <<>>, FALSE, <<>>)
    /\ UNCHANGED <<mazeVars, genVars>>

\* the rest of MainGameScene.create once the provider exists: the Maze entity with
\* its cell size, then the Character and its MovementController at the start cell
CreateCharacter ==
    /\ pc = "done"
    /\ ~created
    /\ \E cs \in CellSizes :
          /\ cellSize' = cs
          /\ container' = gridToPixel(getStartPosition.x, getStartPosition.y, cs)
    /\ created' = TRUE
    /\ gridX' = getStartPosition.x
    /\ gridY' = getStartPosition.y
    /\ isMovingFlag' = FALSE
    /\ moveTween' = NoTween
    /\ lastCall' = Call("create", <<>>, FALSE, <<>>)
    /\ UNCHANGED <<mazeVars, genVars>>

\* move() without the wall check: every move issued while Idle is committed
Move_NoWallCheck(direction) ==
    /\ created
    /\ IF isMovingFlag
       THEN /\ lastCall' = Call("move", <<direction>>, FALSE, <<>>)
            /\ UNCHANGED <<gridX, gridY, isMovingFlag, moveTween, container>>
       ELSE LET new == NewGridPosition(gridX, gridY, direction)
            IN  /\ gridX' = new.x
                /\ gridY' = new.y
                /\ isMovingFlag' = TRUE
                /\ moveTween' = Tween("running", gridToPixel(new.x, new.y, cellSize))
                /\ lastCall' = Call("move", <<direction>>, TRUE,
                                    << Cb("onMoveStart", <<direction>>) >>)
                /\ UNCHANGED container
    /\ UNCHANGED <<mazeVars, genVars, created, cellSize>>

\* move() without the isMovingFlag guard: a move in flight is replaced
Move_NoMovingGuard(direction) ==
    /\ created
    /\ LET new == NewGridPosition(gridX, gridY, direction)
       IN  IF isWall(new.x, new.y)
           THEN LET currentPos == gridToPixel(gridX, gridY, cellSize)
                IN  /\ moveTween' = NoTween
                    /\ lastCall' = Call("move", <<direction>>, FALSE,
                           << Cb("onBlocked", <<direction, currentPos.x, currentPos.y>>) >>)
                    /\ UNCHANGED <<gridX, gridY, isMovingFlag, container>>
           ELSE /\ gridX' = new.x
                /\ gridY' = new.y
                /\ isMovingFlag' = TRUE
                /\ moveTween' = Tween("running", gridToPixel(new.x, new.y, cellSize))
                /\ lastCall' = Call("move", <<direction>>, TRUE,
                                    << Cb("onMoveStart", <<direction>>) >>)
                /\ UNCHANGED container
    /\ UNCHANGED <<mazeVars, genVars, created, cellSize>>

\* MovementController.move; the callbacks it invokes are recorded in lastCall, what
\* the callbacks of Character.move do then is part of CharacterMove
Move(direction) ==
    /\ created
    /\ IF isMovingFlag
       THEN /\ lastCall' = Call("move", <<direction>>, FALSE, <<>>)
            /\ UNCHANGED <<gridX, gridY, isMovingFlag, moveTween, container>>
       ELSE LET new == NewGridPosition(gridX, gridY, direction)
            IN  IF isWall(new.x, new.y)
                THEN LET currentPos == gridToPixel(gridX, gridY, cellSize)
                     IN  /\ moveTween' = NoTween
                         /\ lastCall' = Call("move", <<direction>>, FALSE,
                                << Cb("onBlocked",
                                      <<direction, currentPos.x, currentPos.y>>) >>)
                         /\ UNCHANGED <<gridX, gridY, isMovingFlag, container>>
                ELSE /\ gridX' = new.x
                     /\ gridY' = new.y
                     /\ isMovingFlag' = TRUE
                     /\ moveTween' = Tween("running", gridToPixel(new.x, new.y, cellSize))
                     /\ lastCall' = Call("move", <<direction>>, TRUE,
                                         << Cb("onMoveStart", <<direction>>) >>)
                     /\ UNCHANGED container
    /\ UNCHANGED <<mazeVars, genVars, created, cellSize>>

\* onComplete that calls onMoveComplete but forgets to clear isMovingFlag
TweenComplete_KeepsMoving ==
    /\ created
    /\ moveTween.state = "running"
    /\ isMovingFlag' = isMovingFlag
    /\ moveTween' = [moveTween EXCEPT !.state = "complete"]
    /\ container' = Pos(moveTween.x, moveTween.y)
    /\ lastCall' = Call("tweenComplete", <<>>, FALSE, << Cb("onMoveComplete", <<>>) >>)
    /\ UNCHANGED <<mazeVars, genVars, created, gridX, gridY, cellSize>>

\* the tween's onComplete: the container has reached the tween's target
TweenComplete ==
    /\ created
    /\ moveTween.state = "running"
    /\ isMovingFlag' = FALSE
    /\ moveTween' = [moveTween EXCEPT !.state = "complete"]
    /\ container' = Pos(moveTween.x, moveTween.y)
    /\ lastCall' = Call("tweenComplete", <<>>, FALSE, << Cb("onMoveComplete", <<>>) >>)
    /\ UNCHANGED <<mazeVars, genVars, created, gridX, gridY, cellSize>>

\* refreshPosition that also snaps the logical position back to the start cell
RefreshPosition_ToStart ==
    /\ created
    /\ gridX' = startPosition.x
    /\ gridY' = startPosition.y
    /\ container' = gridToPixel(startPosition.x, startPosition.y, cellSize)
    /\ lastCall' = Call("refreshPosition", <<>>, FALSE, <<>>)
    /\ UNCHANGED <<mazeVars, genVars, created, isMovingFlag, moveTween, cellSize>>

\* refreshPosition that stops the move tween before it realigns the container
RefreshPosition_StopsTween ==
    /\ created
    /\ moveTween' = NoTween
    /\ container' = gridToPixel(gridX, gridY, cellSize)
    /\ lastCall' = Call("refreshPosition", <<>>, FALSE, <<>>)
    /\ UNCHANGED <<mazeVars, genVars, created, gridX, gridY, isMovingFlag, cellSize>>

\* MovementController.refreshPosition
RefreshPosition ==
    /\ created
    /\ container' = gridToPixel(gridX, gridY, cellSize)
    /\ lastCall' = Call("refreshPosition", <<>>, FALSE, <<>>)
    /\ UNCHANGED <<mazeVars, genVars, created, gridX, gridY, isMovingFlag, moveTween,
                   cellSize>>

\* MainGameScene.handleResize of the scene that builds random mazes: a new best cell
\* size goes to Maze.setCellSize and the character is realigned
HandleResize(gameSize) ==
    /\ created
    /\ providerKind = "random"
    /\ LET targetCell == getBestCellSize(gameSize.width, gameSize.height)
       IN  /\ IF targetCell # cellSize
              THEN /\ cellSize' = targetCell
                   /\ container' = gridToPixel(gridX, gridY, targetCell)
              ELSE UNCHANGED <<cellSize, container>>
           /\ lastCall' = Call("handleResize", <<targetCell>>, FALSE, <<>>)
    /\ UNCHANGED <<mazeVars, genVars, created, gridX, gridY, isMovingFlag, moveTween>>

\* MovementController.destroy: a tween that is stopped never calls onComplete
Destroy ==
    /\ created
    /\ moveTween' = NoTween
    /\ lastCall' = Call("destroy", <<>>, FALSE, <<>>)
    /\ UNCHANGED <<mazeVars, genVars, created, gridX, gridY, isMovingFlag, container,
                   cellSize>>

\* a consumer (Maze.render, the mini-map) asks the provider about a cell
IsWallCall(x, y) ==
    /\ pc = "done"
    /\ lastCall' = Call("isWall", <<x, y>>, isWall(x, y), <<>>)
    /\ UNCHANGED <<mazeVars, genVars, ctlVars, cellSize>>

----------------------------------------------------------------------------
(* Specifications *)

Generate ==
    \/ PickStart
    \/ PickExit
    \/ GenerateMazeGrid
    \/ CarveStep
    \/ OpenExit
    \/ EnsurePathToExit
    \/ CarvePathStep

\* a step that involves neither the scene, nor a consumer's object, nor the history
Aside == UNCHANGED <<histVars, sceneVars, held>>

\* the constructor of RandomMazeProvider runs inside create(), which is synchronous
Construct ==
    \/ PickStart /\ Aside
    \/ PickExit /\ Aside
    \/ GenerateMazeGrid /\ Aside
    \/ CarveStep /\ Aside
    \/ OpenExit /\ Aside
    \/ EnsurePathToExit /\ Aside
    \/ CarvePathStep /\ Aside

\* the most steps the constructor can take for a w x h grid: the two draws and the
\* set-up of the grid; for each frame of carvePassagesFrom (one per opened
\* neighbour, and the first) four loop iterations and the return; the opening of
\* the exit; the BFS; one iteration of carvePath per cell of its walk and its last
\* statement
StepBound(w, h) == 3 + 5 * (w * h) + 2 + (w + h - 1)

\* a step of the constructor, counted
Counted ==
    /\ steps <= StepBound(width, height)
    /\ steps' = steps + 1
    /\ UNCHANGED <<committed, completions, autoMoves, sceneVars, held>>

\* the constructor alone, its steps counted
CountedConstruct ==
    \/ PickStart /\ Counted
    \/ PickExit /\ Counted
    \/ GenerateMazeGrid /\ Counted
    \/ CarveStep /\ Counted
    \/ OpenExit /\ Counted
    \/ EnsurePathToExit /\ Counted
    \/ CarvePathStep /\ Counted

SpecConstruct == Init /\ [][CountedConstruct]_vars

\* the constructor of RandomMazeProvider for grids large enough for corridors that
\* turn and run side by side
CarveInit ==
    /\ NewRandomMazeProvider(2 .. MaxCarveSize)
    /\ NoCharacter
    /\ characterType = "blob"

SpecCarve == CarveInit /\ [][Construct]_vars

\* the controller on its own: no scene, no renderer, no consumer holding a position
Next ==
    \/ Construct
    \/ CreateCharacter /\ Aside
    \/ \E direction \in Direction :
          Move(direction) /\ Aside
    \/ TweenComplete /\ Aside
    \/ RefreshPosition /\ Aside
    \/ \E gameSize \in Viewports :
          HandleResize(gameSize) /\ Aside
    \/ Destroy /\ Aside

Spec == Init /\ [][Next]_vars

\* the controller with the history of its commits and completions; the tween that
\* completes is the one moveTween refers to, scheduled by the latest commit
OrderMove(direction) ==
    /\ committed < MaxMoves
    /\ Move(direction)
    /\ committed' = IF lastCall'.ret THEN committed + 1 ELSE committed
    /\ UNCHANGED <<completions, steps, autoMoves, sceneVars, held>>

OrderTweenComplete ==
    /\ TweenComplete
    /\ completions' = Append(completions, committed)
    /\ UNCHANGED <<committed, steps, autoMoves, sceneVars, held>>

OrderNext ==
    \/ Construct
    \/ CreateCharacter /\ Aside
    \/ \E direction \in Direction : OrderMove(direction)
    \/ OrderTweenComplete
    \/ RefreshPosition /\ Aside
    \/ \E gameSize \in Viewports : HandleResize(gameSize) /\ Aside
    \/ Destroy /\ Aside

SpecOrder == Init /\ [][OrderNext]_vars

----------------------------------------------------------------------------
(* The Character (src/src/game/entities/Character.ts) with its renderer, and    *)
(* MainGameScene (src/unnamed/part_004): input policy, completion handlers      *)

\* Character.move(direction, onComplete, duration): the duration is handed to
\* MovementController.move as a fifth argument, which that method does not declare;
\* the tween it schedules lasts TweenDuration. The onBlocked it passes calls the
\* renderer's playBounceAnimation(dir, baseX, baseY): a bounce in progress is
\* stopped, and a yoyo tween on the container is scheduled whose onComplete puts
\* the container back at (baseX, baseY)
CharacterMove(direction, callback, duration) ==
    /\ Move(direction)
    /\ IF lastCall'.ret
       THEN /\ onComplete' = callback
            /\ tweenDuration' = TweenDuration
       ELSE UNCHANGED <<onComplete, tweenDuration>>
    /\ bounceTween' =
           IF lastCall'.cbs # << >> /\ lastCall'.cbs[1].name = "onBlocked"
           THEN Tween("running", Pos(lastCall'.cbs[1].args[2], lastCall'.cbs[1].args[3]))
           ELSE bounceTween
    /\ UNCHANGED <<walkTween, containerDestroyed, characterType>>

\* the renderer's playWalkAnimation(), which Character's completion wrapper calls
\* before the caller's callback: a walk animation in progress is stopped and a
\* yoyo tween on the container is scheduled. UnicornCharacter's animates y
\* ('-=N', back to the y it started from, which is the y the move tween has just
\* ended on); BlobCharacter's animates the scale only
playWalkAnimation ==
    walkTween' = Walk("running", IF characterType = "unicorn" THEN moveTween.y ELSE 0)

\* the onComplete of the walk tween: walkTween = undefined; the yoyo of
\* UnicornCharacter has put the container's y back on the value it started from,
\* wherever the container was put in between
WalkComplete ==
    /\ created
    /\ walkTween.state = "running"
    /\ container' = IF characterType = "unicorn" THEN Pos(container.x, walkTween.y)
                    ELSE container
    /\ walkTween' = NoWalk
    /\ lastCall' = Call("walkComplete", <<>>, FALSE, <<>>)
    /\ sceneEvent' = Event("walkComplete", << >>, << >>, FALSE)
    /\ UNCHANGED <<mazeVars, genVars, created, gridX, gridY, isMovingFlag, moveTween,
                   cellSize, policyVars, onComplete, tweenDuration, bounceTween,
                   containerDestroyed, characterType, histVars, held>>

\* this.character.getRenderer().setSparkleIntensity(n): BlobCharacter defines it,
\* UnicornCharacter does not, so the call throws a TypeError there
setSparkleIntensity_Throws == characterType = "unicorn"

\* the onComplete of the bounce tween (BlobCharacter / UnicornCharacter
\* playBounceAnimation): container.setPosition(baseX, baseY) with the pixel
\* position the rejected move was given, and bounceTween = undefined
BounceComplete ==
    /\ created
    /\ bounceTween.state = "running"
    /\ container' = Pos(bounceTween.x, bounceTween.y)
    /\ bounceTween' = NoTween
    /\ lastCall' = Call("bounceComplete", <<>>, FALSE, <<>>)
    /\ sceneEvent' = Event("bounceComplete", << >>, << >>, FALSE)
    /\ UNCHANGED <<mazeVars, genVars, created, gridX, gridY, isMovingFlag, moveTween,
                   cellSize, policyVars, onComplete, tweenDuration, walkTween,
                   containerDestroyed, characterType, histVars, held>>

\* new BlobCharacter / new UnicornCharacter, then new Character at the start cell:
\* a renderer with a container of its own and no tween
NewCharacter ==
    /\ CreateCharacter
    /\ bounceTween' = NoTween
    /\ walkTween' = NoWalk
    /\ containerDestroyed' = FALSE
    /\ UNCHANGED characterType

\* Character.destroy(): movementController.destroy(), then renderer.destroy(),
\* which stops the walk and the bounce tween (the fields keep referring to them)
\* and destroys the container; nothing keeps it from being called again, and then
\* it stops the tweens started since
CharacterDestroy ==
    /\ Destroy
    /\ bounceTween' = Stopped(bounceTween)
    /\ walkTween' = Stopped(walkTween)
    /\ containerDestroyed' = TRUE
    /\ UNCHANGED <<policyVars, onComplete, tweenDuration, sceneEvent, characterType,
                   histVars, held>>

\* the tween's onComplete of a Character that a caller moves directly: the wrapper
\* of Character.move plays the walk animation and calls the caller's callback
CharacterTweenComplete ==
    /\ TweenComplete
    /\ playWalkAnimation
    /\ UNCHANGED <<policyVars, onComplete, tweenDuration, sceneEvent, bounceTween,
                   containerDestroyed, characterType, histVars, held>>

\* create() from the construction of the Character on: the start cell is marked
\* visited (gameWon and visitedCells were reset when create() was entered)
SceneCreate ==
    /\ NewCharacter
    /\ visitedCells' = visitedCells \cup {getStartPosition}
    /\ sceneEvent' = Event("create", << >>, <<getStartPosition>>, FALSE)
    /\ UNCHANGED <<gameWon, autoMoveDirection, lastKeyPressed, justDown, onComplete,
                   tweenDuration, histVars, held>>

\* the player presses a cursor key: Phaser latches the press until JustDown reads it
KeyDown(key) ==
    /\ created
    /\ key \notin justDown
    /\ Cardinality(justDown) < MaxPendingKeys
    /\ justDown' = justDown \cup {key}
    /\ sceneEvent' = Event("keydown", << >>, << >>, FALSE)
    /\ UNCHANGED <<mazeVars, genVars, ctlVars, cellSize, lastCall, gameWon, visitedCells,
                   autoMoveDirection, lastKeyPressed, onComplete, tweenDuration,
                   rendererVars, histVars, held>>

\* the if / else-if chain of JustDown calls in update(): the first latched key in
\* the order up, down, left, right; only that key's latch is read
PressedDirection ==
    IF "up" \in justDown THEN "up"
    ELSE IF "down" \in justDown THEN "down"
    ELSE IF "left" \in justDown THEN "left"
    ELSE IF "right" \in justDown THEN "right"
    ELSE "null"

\* a handler that returns without calling the character
NoMove == UNCHANGED <<mazeVars, genVars, ctlVars, cellSize, lastCall, onComplete,
                      tweenDuration, rendererVars>>

\* the auto-move branch of update() that never leaves auto-move
AutoMove_NeverEnds ==
    /\ CharacterMove(autoMoveDirection, "onAutoMoveComplete", AutoMoveDuration)
    /\ UNCHANGED autoMoveDirection
    /\ sceneEvent' = Event("update", <<autoMoveDirection, "onAutoMoveComplete",
                                       AutoMoveDuration>>, << >>, FALSE)

\* the auto-move branch of update(): the move is issued again in the same
\* direction; a rejected move ends auto-move, and setSparkleIntensity(1) is called
\* after autoMoveDirection was set to null
AutoMove ==
    /\ CharacterMove(autoMoveDirection, "onAutoMoveComplete", AutoMoveDuration)
    /\ autoMoveDirection' = IF lastCall'.ret THEN autoMoveDirection ELSE "null"
    /\ LET event == Event("update", <<autoMoveDirection, "onAutoMoveComplete",
                                       AutoMoveDuration>>, << >>, FALSE)
       IN  sceneEvent' = IF ~lastCall'.ret /\ setSparkleIntensity_Throws
                         THEN Thrown(event) ELSE event

\* update(); within stands for Date.now() - lastKeyPressTime < doubleTapThreshold.
\* In the two branches that assign autoMoveDirection and then call
\* setSparkleIntensity, a throwing call leaves lastKeyPressed as it was
Update ==
    /\ created
    /\ providerKind = "random"
    /\ IF gameWon
       THEN /\ NoMove
            /\ sceneEvent' = Event("update", << >>, << >>, FALSE)
            /\ UNCHANGED <<autoMoveDirection, lastKeyPressed, justDown>>
       ELSE IF autoMoveDirection # "null" /\ ~isMoving
       THEN /\ AutoMove
            /\ UNCHANGED <<lastKeyPressed, justDown>>
       ELSE IF isMoving
       THEN /\ NoMove
            /\ sceneEvent' = Event("update", << >>, << >>, FALSE)
            /\ UNCHANGED <<autoMoveDirection, lastKeyPressed, justDown>>
       ELSE LET pressedDirection == PressedDirection
            IN  /\ justDown' = justDown \ {pressedDirection}
                /\ IF pressedDirection = "null"
                   THEN /\ NoMove
                        /\ sceneEvent' = Event("update", << >>, << >>, FALSE)
                        /\ UNCHANGED <<autoMoveDirection, lastKeyPressed>>
                   ELSE IF autoMoveDirection # "null"
                   THEN /\ NoMove
                        /\ autoMoveDirection' = "null"
                        /\ IF setSparkleIntensity_Throws
                           THEN /\ sceneEvent' =
                                       Thrown(Event("update", << >>, << >>, FALSE))
                                /\ UNCHANGED lastKeyPressed
                           ELSE /\ sceneEvent' = Event("update", << >>, << >>, FALSE)
                                /\ lastKeyPressed' = "null"
                   ELSE \E within \in BOOLEAN :
                        IF pressedDirection = lastKeyPressed /\ within
                        THEN /\ NoMove
                             /\ autoMoveDirection' = pressedDirection
                             /\ IF setSparkleIntensity_Throws
                                THEN /\ sceneEvent' =
                                            Thrown(Event("update", << >>, << >>, FALSE))
                                     /\ UNCHANGED lastKeyPressed
                                ELSE /\ sceneEvent' =
                                            Event("update", << >>, << >>, FALSE)
                                     /\ lastKeyPressed' = "null"
                        ELSE /\ CharacterMove(pressedDirection, "onMoveComplete",
                                              DefaultMoveDuration)
                             /\ lastKeyPressed' = pressedDirection
                             /\ sceneEvent' = Event("update",
                                    <<pressedDirection, "onMoveComplete",
                                      DefaultMoveDuration>>, << >>, FALSE)
                             /\ UNCHANGED autoMoveDirection
    /\ autoMoves' = IF autoMoveDirection' = "null" THEN 0
                    ELSE IF sceneEvent'.move # << >> /\ lastCall'.ret THEN autoMoves + 1
                    ELSE autoMoves
    /\ UNCHANGED <<gameWon, visitedCells, committed, completions, steps, held>>

\* completion callbacks that declare victory wherever the character arrived
SceneTweenComplete_WinsAnywhere ==
    /\ TweenComplete
    /\ playWalkAnimation
    /\ onComplete \in {"onMoveComplete", "onAutoMoveComplete"}
    /\ visitedCells' = visitedCells \cup {getGridPosition}
    /\ gameWon' = TRUE
    /\ autoMoveDirection' =
           IF onComplete = "onAutoMoveComplete" THEN "null" ELSE autoMoveDirection
    /\ sceneEvent' = Event(onComplete, << >>, <<getGridPosition>>, TRUE)
    /\ autoMoves' = IF autoMoveDirection' = "null" THEN 0 ELSE autoMoves
    /\ UNCHANGED <<lastKeyPressed, justDown, onComplete, tweenDuration, bounceTween,
                   containerDestroyed, characterType, committed, completions, steps,
                   held>>

\* the tween's onComplete inside the scene: Character's wrapper plays the walk
\* animation and calls the callback the scene gave to Character.move,
\* onMoveComplete or onAutoMoveComplete. On the exit onAutoMoveComplete sets
\* autoMoveDirection to null and calls setSparkleIntensity(1) before
\* handleVictory(): when that call throws, gameWon is not set
SceneTweenComplete ==
    /\ TweenComplete
    /\ playWalkAnimation
    /\ onComplete \in {"onMoveComplete", "onAutoMoveComplete"}
    /\ LET currentPos == getGridPosition
           atExit == currentPos = getExitPosition
           throws == /\ onComplete = "onAutoMoveComplete"
                     /\ atExit
                     /\ setSparkleIntensity_Throws
           event  == Event(onComplete, << >>, <<currentPos>>, TRUE)
       IN  /\ visitedCells' = visitedCells \cup {currentPos}
           /\ gameWon' = (gameWon \/ (atExit /\ ~throws))
           /\ autoMoveDirection' =
                  IF onComplete = "onAutoMoveComplete" /\ atExit
                  THEN "null" ELSE autoMoveDirection
           /\ sceneEvent' = IF throws THEN Thrown(event) ELSE event
    /\ autoMoves' = IF autoMoveDirection' = "null" THEN 0 ELSE autoMoves
    /\ UNCHANGED <<lastKeyPressed, justDown, onComplete, tweenDuration, bounceTween,
                   containerDestroyed, characterType, committed, completions, steps,
                   held>>

\* a resize listener that also marks the character's cell visited
SceneHandleResize_MarksCell(gameSize) ==
    /\ HandleResize(gameSize)
    /\ visitedCells' = visitedCells \cup {getGridPosition}
    /\ sceneEvent' = Event("handleResize", << >>, <<getGridPosition>>, FALSE)
    /\ UNCHANGED <<gameWon, autoMoveDirection, lastKeyPressed, justDown,
                   onComplete, tweenDuration, rendererVars, histVars, held>>

\* the scene's resize listener
SceneHandleResize(gameSize) ==
    /\ HandleResize(gameSize)
    /\ sceneEvent' = Event("handleResize", << >>, << >>, FALSE)
    /\ UNCHANGED <<gameWon, visitedCells, autoMoveDirection, lastKeyPressed, justDown,
                   onComplete, tweenDuration, rendererVars, histVars, held>>

\* a restart that keeps the provider and moves its start to the character's cell
Restart_ReusesProvider ==
    /\ created
    /\ gameWon
    /\ gameWon' = FALSE
    /\ visitedCells' = {getGridPosition}
    /\ startPosition' = getGridPosition
    /\ justDown' \in {justDown, {}}
    /\ sceneEvent' = Event("restart", << >>, << >>, FALSE)
    /\ UNCHANGED <<providerKind, width, height, grid, exitPosition, genVars, ctlVars,
                   cellSize, lastCall, onComplete, tweenDuration, autoMoveDirection,
                   lastKeyPressed, rendererVars, histVars, held>>

\* SPACE on the victory screen: scene.restart() shuts the scene down and enters
\* create() again on the same scene object: gameWon and visitedCells are reset, a
\* new RandomMazeProvider of the same size is constructed, later a new Character.
\* The fields create() does not assign keep their values; whether Phaser's keyboard
\* plugin keeps a latched press over the restart is left open
Restart ==
    /\ created
    /\ gameWon
    /\ gameWon' = FALSE
    /\ visitedCells' = {}
    /\ pc' = "pickStart"
    /\ grid' = << >>
    /\ startPosition' = NoPos
    /\ exitPosition' = NoPos
    /\ stack' = << >>
    /\ current' = NoPos
    /\ created' = FALSE
    /\ gridX' = -1
    /\ gridY' = -1
    /\ isMovingFlag' = FALSE
    /\ moveTween' = NoTween
    /\ cellSize' = DefaultCellSize
    /\ container' = NoPos
    /\ lastCall' = NoCall
    /\ onComplete' = "none"
    /\ tweenDuration' = 0
    /\ bounceTween' = NoTween
    /\ walkTween' = NoWalk
    /\ containerDestroyed' = FALSE
    /\ justDown' \in {justDown, {}}
    /\ sceneEvent' = Event("restart", << >>, << >>, FALSE)
    /\ UNCHANGED <<providerKind, width, height, autoMoveDirection, lastKeyPressed,
                   characterType, histVars, held>>

SceneNext ==
    \/ Construct
    \/ SceneCreate
    \/ \E key \in Direction : KeyDown(key)
    \/ Update
    \/ SceneTweenComplete
    \/ BounceComplete
    \/ WalkComplete
    \/ \E gameSize \in Viewports : SceneHandleResize(gameSize)

\* the scene builds square random mazes
SceneInit ==
    /\ InitCharacter
    /\ providerKind = "random"
    /\ width = height
    /\ width <= MaxSceneSize

SpecScene == SceneInit /\ [][SceneNext]_vars

\* the scene in a window that keeps its size
LoopNext ==
    \/ Construct
    \/ SceneCreate
    \/ \E key \in Direction : KeyDown(key)
    \/ Update
    \/ SceneTweenComplete
    \/ BounceComplete
    \/ WalkComplete

\* the scene while the game loop runs: Phaser calls update() every frame and its
\* tween manager runs every tween to its onComplete
SpecLoop == SceneInit /\ [][LoopNext]_vars /\ WF_vars(Update) /\ WF_vars(SceneTweenComplete)

\* a Character that its owner moves, realigns and destroys directly: no input
\* policy and no completion handler of a scene, and a Maze that keeps its cell size
CharacterNext ==
    \/ Construct
    \/ NewCharacter /\ UNCHANGED <<policyVars, onComplete, tweenDuration, sceneEvent,
                                   histVars, held>>
    \/ \E direction \in Direction :
          /\ CharacterMove(direction, "onComplete", DefaultMoveDuration)
          /\ UNCHANGED <<policyVars, sceneEvent, histVars, held>>
    \/ CharacterTweenComplete
    \/ BounceComplete
    \/ WalkComplete
    \/ RefreshPosition /\ Aside
    \/ CharacterDestroy

\* the tween manager runs every frame: the move tween reaches its end unless it
\* is stopped
CharacterInit ==
    /\ SceneInit
    /\ width <= MaxCharacterSize

SpecCharacter ==
    CharacterInit /\ [][CharacterNext]_vars /\ WF_vars(CharacterTweenComplete)

\* the scene over restarts
RestartNext ==
    \/ SceneNext
    \/ Restart

RestartInit ==
    /\ SceneInit
    /\ width <= MaxRestartSize

SpecRestart == RestartInit /\ [][RestartNext]_vars

\* the scene over restarts in mazes large enough for auto-moves to be committed,
\* so that a game is won through onMoveComplete and through onAutoMoveComplete
SpecVictory == SceneInit /\ [][RestartNext]_vars

\* the providers alone, with a consumer that queries cells in and around the grid
QueryNext ==
    \/ Construct
    \/ \E x \in (0 - QueryMargin) .. (width - 1 + QueryMargin),
          y \in (0 - QueryMargin) .. (height - 1 + QueryMargin) :
          IsWallCall(x, y) /\ Aside

SpecQuery == Init /\ [][QueryNext]_vars

----------------------------------------------------------------------------
(* A consumer that keeps and changes the object a getter returned *)

\* a getter that hands out the provider's own object
ReturnedPosition_Internal(name, position) == Held(name, position.x, position.y)

\* { ...position }: a new object with the fields of the stored one; name is the
\* field of mazeData that holds the stored one
ReturnedPosition(name, position) == Held("copy", position.x, position.y)

\* getStartPosition(); the consumer keeps the first object it was given
GetStartPositionCall ==
    /\ pc = "done"
    /\ LET returned == ReturnedPosition("startPosition", startPosition)
       IN  /\ held' = IF held = NoHeld THEN returned ELSE held
           /\ lastCall' = Call("getStartPosition", << >>, Pos(returned.x, returned.y),
                               << >>)
    /\ UNCHANGED <<mazeVars, genVars, ctlVars, cellSize, histVars, sceneVars>>

\* getExitPosition()
GetExitPositionCall ==
    /\ pc = "done"
    /\ LET returned == ReturnedPosition("exitPosition", exitPosition)
       IN  /\ held' = IF held = NoHeld THEN returned ELSE held
           /\ lastCall' = Call("getExitPosition", << >>, Pos(returned.x, returned.y),
                               << >>)
    /\ UNCHANGED <<mazeVars, genVars, ctlVars, cellSize, histVars, sceneVars>>

\* getMazeData(): return this.mazeData, the provider's own object, whose
\* startPosition and exitPosition are the stored position objects
GetMazeDataCall ==
    /\ pc = "done"
    /\ held' = IF held = NoHeld THEN Held("mazeData", -1, -1) ELSE held
    /\ lastCall' = Call("getMazeData", << >>,
                        [width |-> width, height |-> height, grid |-> grid,
                         startPosition |-> startPosition, exitPosition |-> exitPosition],
                        << >>)
    /\ UNCHANGED <<mazeVars, genVars, ctlVars, cellSize, histVars, sceneVars>>

\* the consumer assigns md.startPosition.x (or .y, or a field of md.exitPosition)
\* of the mazeData object it holds (a value outside the grid): the position
\* that changes is the provider's own
AssignMazeData(name, field) ==
    /\ held.ref = "mazeData"
    /\ LET value    == IF field = "x" THEN width ELSE height
           position == IF name = "startPosition" THEN startPosition ELSE exitPosition
           assigned == [position EXCEPT ![field] = value]
       IN  /\ assigned # position
           /\ startPosition' = IF name = "startPosition" THEN assigned ELSE startPosition
           /\ exitPosition' = IF name = "exitPosition" THEN assigned ELSE exitPosition
           /\ lastCall' = Call("assign", <<name, field>>, FALSE, << >>)
    /\ UNCHANGED <<providerKind, width, height, grid, genVars, ctlVars, cellSize,
                   histVars, sceneVars, held>>

\* the consumer assigns a field of the object it holds (a value outside the grid);
\* the object that changes is the one the reference names
AssignHeld(field) ==
    /\ held # NoHeld
    /\ held.ref # "mazeData"
    /\ held' = [held EXCEPT ![field] = IF field = "x" THEN width ELSE height]
    /\ held' # held
    /\ startPosition' = IF held.ref = "startPosition"
                        THEN Pos(held'.x, held'.y) ELSE startPosition
    /\ exitPosition' = IF held.ref = "exitPosition"
                       THEN Pos(held'.x, held'.y) ELSE exitPosition
    /\ lastCall' = Call("assign", <<field>>, FALSE, << >>)
    /\ UNCHANGED <<providerKind, width, height, grid, genVars, ctlVars, cellSize,
                   histVars, sceneVars>>

AliasNext ==
    \/ Construct
    \/ GetStartPositionCall
    \/ GetExitPositionCall
    \/ GetMazeDataCall
    \/ \E field \in {"x", "y"} : AssignHeld(field)
    \/ \E name \in {"startPosition", "exitPosition"}, field \in {"x", "y"} :
          AssignMazeData(name, field)

SpecAlias == Init /\ [][AliasNext]_vars

----------------------------------------------------------------------------
(* Properties *)

Cells(w, h) == { Pos(x, y) : x \in 0 .. (w - 1), y \in 0 .. (h - 1) }

Adjacent(p, q) ==
    \/ p.x = q.x /\ (p.y = q.y + 1 \/ q.y = p.y + 1)
    \/ p.y = q.y /\ (p.x = q.x + 1 \/ q.x = p.x + 1)

\* the path cells joined to the cells of S by N/E/S/W steps over path cells
RECURSIVE Flood(_, _, _, _)
Flood(g, w, h, S) ==
    LET more == { p \in Cells(w, h) : g[p.y][p.x] = 0 /\ \E q \in S : Adjacent(p, q) }
    IN  IF more \subseteq S THEN S ELSE Flood(g, w, h, S \cup more)

\* a 4-connected path of path cells leads from a to b
PathExists(g, w, h, a, b) ==
    /\ g[a.y][a.x] = 0
    /\ b \in Flood(g, w, h, {a})

Built == pc = "done"
RandomBuilt == providerKind = "random" /\ pc = "done"

\* C1: every grid RandomMazeProvider returns contains a 4-connected path of
\* non-wall cells from startPosition to exitPosition.
C1_Connectivity ==
    RandomBuilt => PathExists(grid, width, height, startPosition, exitPosition)

\* C1 witness: a maze whose exit the carving did not reach, after the repair walk
\* has arrived at the exit
C1_Witness ==
    /\ RandomBuilt
    /\ startPosition # exitPosition
    /\ current = exitPosition
    /\ PathExists(grid, width, height, startPosition, exitPosition)

\* C2: in the returned maze isWall(startPosition) and isWall(exitPosition) are false.
C2_StartExitOpen ==
    RandomBuilt => /\ ~isWall(startPosition.x, startPosition.y)
                   /\ ~isWall(exitPosition.x, exitPosition.y)

\* C2 witness: a maze returned without repair, start and exit different and open
C2_Witness ==
    /\ RandomBuilt
    /\ current = NoPos
    /\ startPosition # exitPosition
    /\ ~isWall(startPosition.x, startPosition.y)
    /\ ~isWall(exitPosition.x, exitPosition.y)

\* C3: in the hardcoded maze the start (8,8) and the exit (14,15) are path cells,
\* and a character created at the start stands on a path cell.
C3_FixedStartExitOpen ==
    providerKind = "fixed" =>
        /\ ~isWall(8, 8)
        /\ ~isWall(14, 15)
        /\ (created /\ lastCall.op = "create" => ~isWall(gridX, gridY))

OutOfBounds(x, y) == x < 0 \/ x >= width \/ y < 0 \/ y >= height

\* C4: isWall(x, y) is true outside the grid, and inside it is true exactly when
\* grid[y][x] is 1.
C4_IsWall ==
    lastCall.op = "isWall" =>
        LET x == lastCall.args[1]
            y == lastCall.args[2]
        IN  IF OutOfBounds(x, y)
            THEN lastCall.ret = TRUE
            ELSE lastCall.ret = (grid[y][x] = 1)

\* C4 witness: a random maze was asked about the column just right of the grid
C4_Witness ==
    /\ RandomBuilt
    /\ lastCall.op = "isWall"
    /\ lastCall.args[1] = width
    /\ lastCall.args[2] \in 0 .. (height - 1)
    /\ lastCall.ret = TRUE

Placed == providerKind = "random" /\ pc \notin {"pickStart", "pickExit"}

\* C5: start.x < ceil(W/2), start.y < ceil(H/2), exit.x >= floor(W/2),
\* exit.y >= floor(H/2), and both positions lie inside the grid.
C5_Quadrants ==
    Placed =>
        /\ startPosition.x < (width + 1) \div 2
        /\ startPosition.y < (height + 1) \div 2
        /\ exitPosition.x >= width \div 2
        /\ exitPosition.y >= height \div 2
        /\ startPosition \in Cells(width, height)
        /\ exitPosition \in Cells(width, height)

\* C5 witness: an odd width whose middle column holds the start, the exit in the
\* last column and row
C5_Witness ==
    /\ Placed
    /\ width % 2 = 1
    /\ startPosition.x = width \div 2
    /\ exitPosition = Pos(width - 1, height - 1)

\* C6: exitPosition is a different cell from startPosition.
C6_ExitDiffersFromStart ==
    Placed => exitPosition # startPosition

\* the offset of a direction, stated apart from the controller's switch
Unit(d) ==
    IF d = "up" THEN Pos(0, -1)
    ELSE IF d = "down" THEN Pos(0, 1)
    ELSE IF d = "left" THEN Pos(-1, 0)
    ELSE Pos(1, 0)

\* C7: a move(d) issued while Idle returns true iff the cell p + unit(d) is not a
\* wall; then the position is p + unit(d), and when it returns false it is still p.
C7_MoveLegality ==
    [][ \A d \in Direction :
          (Move(d) /\ ~isMovingFlag) =>
              LET p == Pos(gridX, gridY)
                  c == Pos(gridX + Unit(d).x, gridY + Unit(d).y)
              IN  /\ lastCall'.ret = ~isWall(c.x, c.y)
                  /\ lastCall'.ret => getGridPosition' = c
                  /\ ~lastCall'.ret => getGridPosition' = p ]_vars

\* C7 witness: an accepted move has left the start cell for an open cell
C7_Witness ==
    /\ created
    /\ lastCall.op = "move"
    /\ lastCall.ret
    /\ getGridPosition # startPosition
    /\ ~isWall(gridX, gridY)

\* C8: a move() issued while Moving returns false and changes nothing: position,
\* Moving state and pending completion stay, and no callback is invoked.
C8_MoveWhileMoving ==
    [][ \A d \in Direction :
          (Move(d) /\ isMovingFlag) =>
              /\ lastCall'.ret = FALSE
              /\ lastCall'.cbs = << >>
              /\ UNCHANGED <<gridX, gridY, isMovingFlag, moveTween, container>> ]_vars

\* C8 witness: a move was rejected with its tween still running, towards a cell
\* that is not a wall
C8_Witness ==
    /\ created
    /\ lastCall = Call("move", lastCall.args, FALSE, << >>)
    /\ isMovingFlag
    /\ moveTween.state = "running"
    /\ \E d \in Direction :
          /\ lastCall.args = <<d>>
          /\ ~isWall(gridX + Unit(d).x, gridY + Unit(d).y)

\* C9: for a controller created at the start of a random maze, the logical grid
\* position is a path cell inside the grid in every reachable state.
C9_PositionOnPath ==
    (providerKind = "random" /\ created) => ~isWall(gridX, gridY)

\* C9 witness: the character of a random maze has walked from the start to a
\* different exit cell
C9_Witness ==
    /\ providerKind = "random"
    /\ created
    /\ startPosition # exitPosition
    /\ getGridPosition = exitPosition
    /\ ~isMovingFlag

\* C10: the grid position is written only by a move() that returns true; the
\* constructor sets it to the maze's start cell.
C10_PositionWriters ==
    [][ /\ (~created /\ created') => getGridPosition' = startPosition
        /\ (created /\ getGridPosition' # getGridPosition) =>
              (lastCall'.op = "move" /\ lastCall'.ret = TRUE) ]_vars

\* C10 witness: away from the start, a completion callback has run and the
\* position is the one the move committed
C10_Witness ==
    /\ created
    /\ lastCall.op = "tweenComplete"
    /\ getGridPosition # startPosition
    /\ container = gridToPixel(gridX, gridY, cellSize)

\* C11: an Idle move towards a wall or out of bounds returns false, stays Idle,
\* keeps the position, schedules no completion, and invokes onBlocked once with the
\* direction and the pixel centre of the current cell, and no other callback.
C11_BlockedMove ==
    [][ \A d \in Direction :
          (/\ Move(d)
           /\ ~isMovingFlag
           /\ isWall(gridX + Unit(d).x, gridY + Unit(d).y)) =>
              /\ lastCall'.ret = FALSE
              /\ isMovingFlag' = FALSE
              /\ getGridPosition' = getGridPosition
              /\ moveTween'.state # "running"
              /\ lastCall'.cbs =
                    << Cb("onBlocked", <<d, 2 * (gridX * cellSize) + cellSize,
                                            2 * (gridY * cellSize) + cellSize>>) >> ]_vars

\* C11 witness: a move towards a cell outside the grid was rejected with onBlocked
C11_Witness ==
    /\ created
    /\ ~isMovingFlag
    /\ lastCall.op = "move"
    /\ ~lastCall.ret
    /\ Len(lastCall.cbs) = 1
    /\ lastCall.cbs[1].name = "onBlocked"
    /\ \E d \in Direction :
          /\ lastCall.args = <<d>>
          /\ OutOfBounds(gridX + Unit(d).x, gridY + Unit(d).y)

\* C12: when move() returns true the position is already the candidate cell and
\* isMoving() is true; isMoving() goes back to false only in the tween's completion
\* callback, which invokes onMoveComplete and leaves the grid position alone.
C12_CommitThenComplete ==
    [][ /\ \A d \in Direction :
              (Move(d) /\ lastCall'.ret) =>
                  /\ getGridPosition' = Pos(gridX + Unit(d).x, gridY + Unit(d).y)
                  /\ isMoving'
        /\ (created /\ isMoving /\ ~isMoving') => lastCall'.op = "tweenComplete"
        /\ (created /\ lastCall'.op = "tweenComplete") =>
              /\ ~isMoving'
              /\ lastCall'.cbs = << Cb("onMoveComplete", <<>>) >>
              /\ getGridPosition' = getGridPosition ]_vars

\* C12 witness: in the hardcoded maze a committed move has completed
C12_Witness ==
    /\ providerKind = "fixed"
    /\ created
    /\ lastCall.op = "tweenComplete"
    /\ lastCall.cbs = << Cb("onMoveComplete", <<>>) >>
    /\ ~isMoving
    /\ moveTween.state = "complete"

TweenRunning == created /\ moveTween.state = "running"

\* C14 as stated: once a move is committed no operation of the controller stops
\* its tween; the tween ends only by firing its completion signal.
C14_NoOperationStops ==
    [][ (TweenRunning /\ moveTween'.state # "running") =>
            lastCall'.op = "tweenComplete" ]_vars

\* C14 amended: move() and refreshPosition() never stop a committed move's tween,
\* only destroy() does; a committed move is followed by its completion signal, which
\* returns the state to Idle, unless destroy() stops the tween first.
C14_OnlyDestroyStops ==
    /\ [][ (TweenRunning /\ moveTween'.state # "running") =>
              \/ lastCall'.op = "tweenComplete" /\ ~isMoving'
              \/ lastCall'.op = "destroy" /\ isMoving' ]_vars
    /\ (TweenRunning ~> (~isMoving \/ lastCall.op = "destroy"))

\* C14 witness: Character.destroy() was called during a move: the tween is gone,
\* the container is destroyed and the controller still reports Moving
C14_Witness ==
    /\ created
    /\ lastCall.op = "destroy"
    /\ isMoving
    /\ moveTween = NoTween
    /\ containerDestroyed

----------------------------------------------------------------------------
\* C13: at most one move completion is pending in every reachable state, and the
\* completion callbacks fire once each, in the order the moves were committed:
\* the k-th completion belongs to the k-th commit, and only the latest commit can
\* still wait for its completion.
C13_OneCompletionInOrder ==
    /\ committed - Len(completions) \in {0, 1}
    /\ \A i \in 1 .. Len(completions) : completions[i] = i
    /\ TweenRunning => committed = Len(completions) + 1

\* two moves have completed and a third one is in flight
C13_Witness ==
    /\ Len(completions) = 2
    /\ committed = 3
    /\ TweenRunning

----------------------------------------------------------------------------
\* the scene's two completion callbacks
CompletionHandlers == {"onMoveComplete", "onAutoMoveComplete"}

\* C15 as stated: in the game scene a cell is marked visited and victory is
\* checked only from a move's completion signal (onMoveComplete or
\* onAutoMoveComplete); no other handler of the scene does either.
C15_OnlyFromCompletion ==
    [][ (\/ sceneEvent'.marked # << >>
         \/ visitedCells' # visitedCells
         \/ sceneEvent'.victoryChecked
         \/ gameWon' # gameWon)
        => sceneEvent'.handler \in CompletionHandlers ]_vars

\* C15, amended: victory is checked only from a move's completion signal, and a
\* cell is marked visited only there (the cell the character arrived in), with one
\* exception: create() marks the start cell when it has placed the character.
C15_CompletionOrCreate ==
    [][ /\ (sceneEvent'.marked # << >> \/ visitedCells' # visitedCells)
           => \/ /\ sceneEvent'.handler \in CompletionHandlers
                 /\ sceneEvent'.marked = <<getGridPosition'>>
                 /\ visitedCells' = visitedCells \cup {getGridPosition'}
              \/ /\ sceneEvent'.handler = "create"
                 /\ sceneEvent'.marked = <<getStartPosition>>
                 /\ visitedCells' = {getStartPosition}
        /\ (sceneEvent'.victoryChecked \/ gameWon' # gameWon)
           => sceneEvent'.handler \in CompletionHandlers ]_vars

\* a completion has marked a cell other than the start cell, which create() marked
C15_Witness ==
    /\ sceneEvent.handler \in CompletionHandlers
    /\ sceneEvent.victoryChecked
    /\ getStartPosition \in visitedCells
    /\ getGridPosition \in visitedCells
    /\ getGridPosition # getStartPosition

----------------------------------------------------------------------------
\* C16: while auto-move is active, a directional key press that has arrived
\* cancels auto-move: the update() that meets the press with the character at rest
\* leaves autoMoveDirection null and issues no move.
C16_KeyPressCancelsAutoMove ==
    [][ (/\ sceneEvent'.handler = "update"
         /\ ~gameWon
         /\ autoMoveDirection # "null"
         /\ justDown # {}
         /\ ~isMoving)
        => /\ autoMoveDirection' = "null"
           /\ sceneEvent'.move = << >> ]_vars

----------------------------------------------------------------------------
\* C17: while auto-move is active, an update() whose re-issued move is rejected
\* (the next cell is a wall or outside the grid) sets autoMoveDirection to null in
\* that same update(), and the character stays where it is; with auto-move
\* inactive, an update() issues a move only for a key press that it consumes.
C17_RejectedAutoMoveEnds ==
    [][ /\ (/\ sceneEvent'.handler = "update"
             /\ ~gameWon
             /\ autoMoveDirection # "null"
             /\ ~isMoving
             /\ isWall(gridX + Unit(autoMoveDirection).x,
                       gridY + Unit(autoMoveDirection).y))
           => /\ autoMoveDirection' = "null"
              /\ sceneEvent'.move =
                    <<autoMoveDirection, "onAutoMoveComplete", AutoMoveDuration>>
              /\ lastCall'.ret = FALSE
              /\ getGridPosition' = getGridPosition
              /\ ~isMoving'
        /\ (/\ sceneEvent'.handler = "update"
             /\ autoMoveDirection = "null"
             /\ sceneEvent'.move # << >>)
           => /\ sceneEvent'.move[1] \in justDown
              /\ sceneEvent'.move[1] \notin justDown'
              /\ sceneEvent'.move[2] = "onMoveComplete" ]_vars

\* auto-move has moved the character at least one cell and the move issued next
\* was rejected: auto-move is over
C17_Witness ==
    /\ sceneEvent.handler = "update"
    /\ sceneEvent.move # << >>
    /\ sceneEvent.move[2] = "onAutoMoveComplete"
    /\ lastCall.op = "move"
    /\ lastCall.ret = FALSE
    /\ autoMoveDirection = "null"
    /\ onComplete = "onAutoMoveComplete"
    /\ getGridPosition # getStartPosition

----------------------------------------------------------------------------
\* C18: the duration update() gives to Character.move (AutoMoveDuration for an
\* auto-move, DefaultMoveDuration otherwise) is the duration of the tween that
\* MovementController schedules for the committed move.
C18_TweenLastsAsAsked ==
    [][ (/\ sceneEvent'.handler = "update"
         /\ sceneEvent'.move # << >>
         /\ lastCall'.ret = TRUE)
        => tweenDuration' = sceneEvent'.move[3] ]_vars

----------------------------------------------------------------------------
\* C19: for both providers, changing the object that getStartPosition() or
\* getExitPosition() returned does not change the provider's stored positions:
\* once the provider is constructed no step of a consumer that holds such an
\* object (and not the mazeData object itself), an assignment to the returned
\* object included, changes them, and every later getStartPosition(),
\* getExitPosition() and getMazeData() reports them.
C19_GettersReturnCopies ==
    [][ pc = "done" =>
          /\ held.ref # "mazeData" =>
                (startPosition' = startPosition /\ exitPosition' = exitPosition)
          /\ lastCall'.op = "getStartPosition" => lastCall'.ret = startPosition
          /\ lastCall'.op = "getExitPosition" => lastCall'.ret = exitPosition
          /\ lastCall'.op = "getMazeData" =>
                /\ lastCall'.ret.startPosition = startPosition
                /\ lastCall'.ret.exitPosition = exitPosition ]_vars

\* the consumer changed both fields of the object it was given, and a getter
\* called afterwards still reports a cell of the grid
C19_Witness ==
    /\ providerKind = "random"
    /\ held.ref = "copy"
    /\ held.x = width
    /\ held.y = height
    /\ lastCall.op \in {"getStartPosition", "getExitPosition"}
    /\ lastCall.ret \in {startPosition, exitPosition}
    /\ lastCall.ret.x < width

----------------------------------------------------------------------------
\* C20: once the provider's constructor has returned, no step of the provider,
\* the controller or the scene (moves, completions, resize, victory) changes the
\* maze's width, height, grid, start or exit; a restart does not edit the maze
\* either: it starts the construction of a new provider of the same size.
C20_MazeImmutable ==
    [][ pc = "done" =>
          \/ pc' = "done" /\ UNCHANGED mazeVars
          \/ /\ sceneEvent'.handler = "restart"
             /\ pc' = "pickStart"
             /\ grid' = << >>
             /\ startPosition' = NoPos
             /\ exitPosition' = NoPos
             /\ UNCHANGED <<providerKind, width, height>> ]_vars

\* the game was played to victory (a key press was processed, so lastKeyPressed is
\* set) and restarted, and the constructor of the new provider has returned
C20_Witness ==
    /\ sceneEvent.handler = "restart"
    /\ lastKeyPressed # "null"
    /\ ~created
    /\ pc = "done"
    /\ grid # << >>
    /\ startPosition # NoPos
    /\ exitPosition # NoPos

----------------------------------------------------------------------------
\* C21: in the hardcoded maze a controller that stands in the start column, on the
\* start row or below it, and is asked to move DOWN while at rest is never
\* rejected: seven such moves from the start (8,8) end at (8,15), the cells
\* (8,9) .. (8,15) being path cells.
C21_DownCorridorOpen ==
    [][ (/\ providerKind = "fixed"
         /\ Move("down")
         /\ ~isMovingFlag
         /\ gridX = FixedStart.x
         /\ gridY >= FixedStart.y
         /\ gridY < FixedHeight - 1)
        => /\ lastCall'.ret = TRUE
           /\ getGridPosition' = Pos(gridX, gridY + 1)
           /\ ~isWall(gridX, gridY + 1) ]_vars

----------------------------------------------------------------------------
\* the recursive carving is running or has just returned; the exit is not yet forced
Carving == providerKind = "random" /\ pc \in {"carve", "openExit"}

\* C22 as stated: recursive carving leaves the outermost ring as wall: while it runs
\* and when it has returned, every cell with x = 0, x = width - 1, y = 0 or
\* y = height - 1, other than the start cell, is a wall.
C22_RingStaysWall ==
    Carving =>
        \A c \in Cells(width, height) :
            (/\ c.x = 0 \/ c.x = width - 1 \/ c.y = 0 \/ c.y = height - 1
             /\ c # startPosition)
            => grid[c.y][c.x] = 1

\* C22, amended: recursive carving leaves the first column and the first row as
\* wall: every cell with x = 0 or y = 0, other than the start cell, is a wall; the
\* last column and the last row can be carved.
C22_FirstRowColumnStayWall ==
    Carving =>
        \A c \in Cells(width, height) :
            ((c.x = 0 \/ c.y = 0) /\ c # startPosition) => grid[c.y][c.x] = 1

\* carving has returned and has opened a cell of the last column
C22_Witness ==
    /\ Carving
    /\ pc = "openExit"
    /\ \E c \in Cells(width, height) :
          /\ c.x = width - 1
          /\ c # startPosition
          /\ grid[c.y][c.x] = 0

----------------------------------------------------------------------------
\* v lies between a and b, in either order, both included
Between(v, a, b) == (a <= v /\ v <= b) \/ (b <= v /\ v <= a)

\* the cells of the walk from start to exit that takes its horizontal steps first
LWalk ==
    { c \in Cells(width, height) :
        \/ c.y = startPosition.y /\ Between(c.x, startPosition.x, exitPosition.x)
        \/ c.x = exitPosition.x /\ Between(c.y, startPosition.y, exitPosition.y) }

\* C23: when the BFS finds the exit unreachable, carvePath turns into path exactly
\* the cells of the L-shaped walk from start to exit with the horizontal steps
\* first: each step of the repair changes only cells of the walk, and only to path;
\* the walk stays on the L and stops at the exit, and then every cell of the L,
\* start and exit included, is a path cell.
C23_RepairCarvesL ==
    [][ (providerKind = "random" /\ pc = "carvePath") =>
          /\ \A c \in Cells(width, height) :
                grid'[c.y][c.x] # grid[c.y][c.x] => (c \in LWalk /\ grid'[c.y][c.x] = 0)
          /\ current \in LWalk
          /\ current' \in LWalk
          /\ grid'[current.y][current.x] = 0
          /\ grid'[current'.y][current'.x] = 0
          /\ pc' = "done" <=> current = exitPosition
          /\ pc' = "done" =>
                /\ current' = exitPosition
                /\ \A c \in LWalk : grid'[c.y][c.x] = 0 ]_vars

\* a repair has run over an L with a horizontal and a vertical arm
C23_Witness ==
    /\ RandomBuilt
    /\ current = exitPosition
    /\ startPosition.x < exitPosition.x
    /\ startPosition.y < exitPosition.y
    /\ \A c \in LWalk : grid[c.y][c.x] = 0

----------------------------------------------------------------------------
\* C24: connectivity repair changes the grid only when it is needed: when a
\* 4-connected path of path cells leads from start to exit, ensurePathToExit
\* returns with every cell unchanged; when none does, carvePath runs, and no step
\* of it turns a path cell back into a wall.
C24_RepairOnlyWhenNeeded ==
    [][ (providerKind = "random" /\ pc \in {"ensure", "carvePath"}) =>
          /\ pc = "ensure" =>
                /\ grid' = grid
                /\ IF PathExists(grid, width, height, startPosition, exitPosition)
                   THEN pc' = "done"
                   ELSE pc' = "carvePath"
          /\ \A c \in Cells(width, height) :
                grid[c.y][c.x] = 0 => grid'[c.y][c.x] = 0 ]_vars

\* the BFS reached the exit through cells the carving opened: no repair has run
C24_Witness ==
    /\ RandomBuilt
    /\ current = NoPos
    /\ startPosition # exitPosition
    /\ ~Adjacent(startPosition, exitPosition)
    /\ PathExists(grid, width, height, startPosition, exitPosition)

----------------------------------------------------------------------------
\* the cells of the 2x2 block whose upper-left cell is (x, y)
Block(x, y) == { Pos(x, y), Pos(x + 1, y), Pos(x, y + 1), Pos(x + 1, y + 1) }

\* C25: stride-2 carving produces corridors of width 1: while the recursive carving
\* runs and when it has returned (the exit not yet forced open, no repair yet), no
\* 2x2 block of cells consists entirely of path cells.
C25_NoOpenBlock ==
    Carving =>
        \A x \in 0 .. (width - 2), y \in 0 .. (height - 2) :
            \E c \in Block(x, y) : grid[c.y][c.x] = 1

\* the eight cells around (x, y)
Ring(x, y) == { Pos(x + dx, y + dy) : dx \in {-1, 0, 1}, dy \in {-1, 0, 1} }
                  \ {Pos(x, y)}

\* carving has returned after opening a corridor that turns three times around a
\* wall cell: two stretches run side by side, one cell of wall between them, and
\* seven of the eight cells around that cell are open
C25_Witness ==
    /\ Carving
    /\ pc = "openExit"
    /\ \E k \in Cells(width, height) :
          /\ grid[k.y][k.x] = 1
          /\ Ring(k.x, k.y) \subseteq Cells(width, height)
          /\ Cardinality({ c \in Ring(k.x, k.y) : grid[c.y][c.x] = 0 }) >= 7

----------------------------------------------------------------------------
\* C26: construction of a RandomMazeProvider terminates: the constructor never
\* takes more than StepBound(width, height) steps, so the recursive carving and the
\* repair loop finish after finitely many steps (the BFS is one step); a
\* constructor that has not returned is at a position from which it takes a step
\* (in the carving with a frame on the stack, in the repair loop with its current
\* cell inside the grid), and the repair loop is left exactly when the current cell
\* equals the exit.
C26_ConstructionTerminates ==
    /\ [](steps <= StepBound(width, height))
    /\ [][ (providerKind = "random" /\ pc = "carvePath") =>
              (pc' = "done" <=> current = exitPosition) ]_vars
    /\ []((providerKind = "random" /\ pc # "done") =>
            /\ pc \in {"pickStart", "pickExit", "generate", "carve", "openExit",
                        "ensure", "carvePath"}
            /\ pc = "carve" => stack # << >>
            /\ pc = "carvePath" => current \in Cells(width, height)
            /\ steps <= StepBound(width, height))

\* the constructor has returned after the carving recursion unwound and the repair
\* loop walked to the exit
C26_Witness ==
    /\ RandomBuilt
    /\ stack = << >>
    /\ current = exitPosition
    /\ current # startPosition
    /\ Cardinality({ c \in Cells(width, height) : grid[c.y][c.x] = 0 }) >= 4

----------------------------------------------------------------------------
\* c is an index pair of a width x height grid
InGrid(c) == c.x \in 0 .. (width - 1) /\ c.y \in 0 .. (height - 1)

\* the constructor has drawn start and exit and has allocated the grid
Allocated == Placed /\ pc # "generate"

\* C27: construction of a RandomMazeProvider reads and writes the grid only at
\* indices inside [0,width) x [0,height): the start and the exit it opens, the cell
\* of every call of carvePassagesFrom, the midpoint and the neighbour it carves
\* when the neighbour passes its test, the cell carvePath stands on and the cell it
\* steps into are all inside the grid, and the grid keeps its height rows of width
\* cells.
C27_AccessesInBounds ==
    /\ Placed => InGrid(startPosition) /\ InGrid(exitPosition)
    /\ Allocated =>
          grid \in [0 .. (height - 1) -> [0 .. (width - 1) -> {0, 1}]]
    /\ (providerKind = "random" /\ pc = "carve") =>
          \A i \in 1 .. Len(stack) :
              /\ InGrid(Pos(stack[i].cx, stack[i].cy))
              /\ \A k \in 1 .. Len(stack[i].dirs) :
                    LET dir == stack[i].dirs[k]
                        nx  == stack[i].cx + dir.x
                        ny  == stack[i].cy + dir.y
                    IN  (nx > 0 /\ nx < width /\ ny > 0 /\ ny < height) =>
                            /\ InGrid(Pos(nx, ny))
                            /\ InGrid(Pos(stack[i].cx + (dir.x \div 2),
                                          stack[i].cy + (dir.y \div 2)))
    /\ (providerKind = "random" /\ pc = "carvePath") =>
          /\ InGrid(current)
          /\ InGrid(CarveMove(current, exitPosition))

\* the carving is two calls deep, and an exit in the last column and the last row
\* is to be opened
C27_Witness ==
    /\ providerKind = "random"
    /\ pc = "carve"
    /\ Len(stack) = 2
    /\ exitPosition = Pos(width - 1, height - 1)
    /\ stack[2].cx = width - 1 \/ stack[2].cy = height - 1

----------------------------------------------------------------------------
\* C28: in every state of the game scene in which gameWon is true the character's
\* logical position is the exit and the character is not moving; gameWon becomes
\* true only in a completion callback that finds the position on the exit; while
\* gameWon is true update() issues no move, and only a restart makes it false.
C28_WonOnExitAtRest ==
    /\ [](gameWon => (created /\ getGridPosition = getExitPosition /\ ~isMoving))
    /\ [][ (gameWon' /\ ~gameWon) =>
              /\ sceneEvent'.handler \in CompletionHandlers
              /\ getGridPosition' = getExitPosition ]_vars
    /\ [][ gameWon =>
              /\ sceneEvent'.move = << >>
              /\ \/ lastCall' = lastCall
                 \/ sceneEvent'.handler \in {"handleResize", "restart", "bounceComplete",
                                            "walkComplete"}
              /\ gameWon' \/ sceneEvent'.handler = "restart" ]_vars

\* the game is won, a key was pressed afterwards and an update() has run without
\* reading it
C28_Witness ==
    /\ gameWon
    /\ onComplete = "onAutoMoveComplete"
    /\ sceneEvent.handler = "update"
    /\ justDown # {}
    /\ getGridPosition = getExitPosition
    /\ getGridPosition \in visitedCells

----------------------------------------------------------------------------
\* the path cells of the grid
PathCells == { c \in Cells(width, height) : grid[c.y][c.x] = 0 }

\* C29: in every grid RandomMazeProvider returns, every path cell is 4-connected to
\* the start cell through path cells: no open cell or open region is out of the
\* player's reach.
C29_AllPathCellsReachable ==
    RandomBuilt =>
        /\ startPosition \in PathCells
        /\ PathCells \subseteq Flood(grid, width, height, {startPosition})

\* a returned grid with an open cell that is neither the start, nor the exit, nor
\* next to the start
C29_Witness ==
    /\ RandomBuilt
    /\ \E c \in PathCells :
          /\ c # startPosition
          /\ c # exitPosition
          /\ ~Adjacent(c, startPosition)
          /\ c \in Flood(grid, width, height, {startPosition})

----------------------------------------------------------------------------
\* the larger of the two dimensions of the maze
MaxDimension == IF width >= height THEN width ELSE height

\* C30: auto-move always ends: while update() keeps being called and every
\* committed tween completes, a state with autoMoveDirection set is followed by one
\* where it is null again, and the auto-move run commits at most
\* max(width, height) moves before that.
C30_AutoMoveEnds ==
    /\ (autoMoveDirection # "null") ~> (autoMoveDirection = "null")
    /\ [](autoMoves <= MaxDimension)
    /\ [](autoMoveDirection = "null" => autoMoves = 0)

\* an auto-move run has committed a move, whose tween is running
C30_Witness ==
    /\ autoMoveDirection # "null"
    /\ autoMoves = 1
    /\ isMovingFlag
    /\ onComplete = "onAutoMoveComplete"

====
